---- MODULE Spec2Model ----
(***************************************************************************)
(* Model of the WASI runtime capability layer (lib/wasi/src/runtime/mod.rs)*)
(* and of the container unpack command                                     *)
(* (lib/cli/src/commands/container/unpack.rs).                             *)
(*                                                                         *)
(* Three specifications share the module:                                  *)
(*   SpecTty    threads calling DefaultTty::{reset,tty_get,tty_set} on one *)
(*              provider, one step per statement, with the Mutex           *)
(*   Spec       PluggableRuntimeImplementation handles: new, default,      *)
(*              clone, the three mutators, the WasiRuntime accessors       *)
(*   SpecUnpack PackageUnpack::execute against a small file system         *)
(***************************************************************************)
EXTENDS Naturals, Sequences, FiniteSets, TLC

\* ----------------------------------------------------------------- bounds
\* Number of threads calling into one DefaultTty (SpecTty).
MaxThreads == 2
\* Number of PluggableRuntimeImplementation values alive at once (Spec).
MaxHandles == 2
\* Number of calls made on the runtime handles in one run (Spec).
MaxOps == 3

Threads == 1..MaxThreads
Handles == 1..MaxHandles
\* Heap addresses of Arc-allocated providers.  A handle refers to one
\* networking and one tty object, so MaxHandles + 1 addresses always leave a
\* free one that differs from the object being replaced.
ObjIds == 1..(MaxHandles + 1)

\* Option<T>: None is the empty set, Some(x) the singleton.
None == {}
Some(x) == {x}

VARIABLES
    features,   \* cargo features / target cfg the crate was built with
    ttyDefault, \* WasiTtyState::default() of this build
    rts,        \* handle -> PluggableRuntimeImplementation (constructed handles)
    ttyState,   \* tty object id -> DefaultTty.state (live DefaultTty objects)
    mutex,      \* tty object id -> thread holding DefaultTty.state's lock, 0 = free
    last,       \* history: the last operation on a runtime handle
    shared,     \* history: pairs of handles whose tty field was copied by clone
    given,      \* history: handle -> what its constructor and set_engine were given
    pc,         \* thread -> position inside a DefaultTty method
    tgt,        \* thread -> the DefaultTty (&self) of the call in progress
    arg,        \* thread -> Option<tty_state> parameter of tty_set
    ret,        \* thread -> Option<value returned by tty_get>
    written,    \* history: tty id -> the latest write in lock order: [by, state]
    expect,     \* history: thread -> `written` at the moment tty_get read
    calls,      \* number of operations performed on the handles so far
    fs,         \* the output directory: [exists, entries]
    creatable,  \* whether the OS lets the output directory be created
    out         \* history: the last PackageUnpack::execute call and its outcome

vars == <<features, ttyDefault, rts, ttyState, mutex, last, shared, given,
          pc, tgt, arg, ret, written, expect, calls, fs, creatable, out>>

rtVars == <<features, rts, last, shared, given, calls>>
thVars == <<pc, tgt, arg, ret, written, expect, mutex>>
fsVars == <<fs, creatable, out>>

\* ------------------------------------------------------------ WasiTtyState
WasiTtyState == [echo : BOOLEAN, line_buffered : BOOLEAN, line_feeds : BOOLEAN]

\* state.echo = false
set_echo_false(s) == [s EXCEPT !.echo = FALSE]
\* state.line_buffered = false
set_line_buffered_false(s) == [s EXCEPT !.line_buffered = FALSE]
\* state.line_feeds = false
set_line_feeds_keep(s) == s
set_line_feeds_false(s) == [s EXCEPT !.line_feeds = FALSE]

\* The body of DefaultTty::reset as a function of the guarded state.
reset_state(s) == set_line_feeds_false(set_line_buffered_false(set_echo_false(s)))

\* --------------------------------------------------- Mutex<WasiTtyState>
\* self.state.lock().unwrap(): blocks until the lock is free.
lock_no_wait(t, id) ==
    mutex' = [mutex EXCEPT ![id] = t]
lock(t, id) ==
    /\ mutex[id] = 0
    /\ mutex' = [mutex EXCEPT ![id] = t]

\* The MutexGuard goes out of scope.
unlock(t, id) == mutex' = [mutex EXCEPT ![id] = 0]

\* ------------------------------------------- DefaultTty, statement by statement
\* A thread holding a reference to a DefaultTty enters one of its methods.
reset_call(t) ==
    /\ pc[t] = "idle"
    /\ \E id \in DOMAIN ttyState :
        tgt' = [tgt EXCEPT ![t] = id]
    /\ pc' = [pc EXCEPT ![t] = "reset_lock"]
    /\ UNCHANGED <<arg, ret, written, expect, mutex, ttyState>>

reset_lock(t) ==
    /\ pc[t] = "reset_lock"
    /\ lock(t, tgt[t])
    /\ written' = [written EXCEPT ![tgt[t]] =
                        [by |-> "reset", state |-> reset_state(ttyState[tgt[t]])]]
    /\ pc' = [pc EXCEPT ![t] = "reset_echo"]
    /\ UNCHANGED <<tgt, arg, ret, expect, ttyState>>

reset_echo(t) ==
    /\ pc[t] = "reset_echo"
    /\ ttyState' = [ttyState EXCEPT ![tgt[t]] = set_echo_false(@)]
    /\ pc' = [pc EXCEPT ![t] = "reset_line_buffered"]
    /\ UNCHANGED <<tgt, arg, ret, written, expect, mutex>>

reset_line_buffered(t) ==
    /\ pc[t] = "reset_line_buffered"
    /\ ttyState' = [ttyState EXCEPT ![tgt[t]] = set_line_buffered_false(@)]
    /\ pc' = [pc EXCEPT ![t] = "reset_line_feeds"]
    /\ UNCHANGED <<tgt, arg, ret, written, expect, mutex>>

reset_line_feeds(t) ==
    /\ pc[t] = "reset_line_feeds"
    /\ ttyState' = [ttyState EXCEPT ![tgt[t]] = set_line_feeds_false(@)]
    /\ pc' = [pc EXCEPT ![t] = "reset_unlock"]
    /\ UNCHANGED <<tgt, arg, ret, written, expect, mutex>>

reset_unlock(t) ==
    /\ pc[t] = "reset_unlock"
    /\ unlock(t, tgt[t])
    /\ pc' = [pc EXCEPT ![t] = "idle"]
    /\ UNCHANGED <<tgt, arg, ret, written, expect, ttyState>>

tty_get_call(t) ==
    /\ pc[t] = "idle"
    /\ \E id \in DOMAIN ttyState :
        tgt' = [tgt EXCEPT ![t] = id]
    /\ pc' = [pc EXCEPT ![t] = "get_lock"]
    /\ UNCHANGED <<arg, ret, written, expect, mutex, ttyState>>

tty_get_lock(t) ==
    /\ pc[t] = "get_lock"
    /\ lock(t, tgt[t])
    /\ pc' = [pc EXCEPT ![t] = "get_clone"]
    /\ UNCHANGED <<tgt, arg, ret, written, expect, ttyState>>

\* state.clone(): the value the method will return.
tty_get_clone(t) ==
    /\ pc[t] = "get_clone"
    /\ ret' = [ret EXCEPT ![t] = Some(ttyState[tgt[t]])]
    /\ expect' = [expect EXCEPT ![t] = Some(written[tgt[t]])]
    /\ pc' = [pc EXCEPT ![t] = "get_unlock"]
    /\ UNCHANGED <<tgt, arg, written, mutex, ttyState>>

tty_get_unlock(t) ==
    /\ pc[t] = "get_unlock"
    /\ unlock(t, tgt[t])
    /\ pc' = [pc EXCEPT ![t] = "get_return"]
    /\ UNCHANGED <<tgt, arg, ret, written, expect, ttyState>>

\* The caller receives the snapshot and goes on.
tty_get_return(t) ==
    /\ pc[t] = "get_return"
    /\ ret' = [ret EXCEPT ![t] = None]
    /\ expect' = [expect EXCEPT ![t] = None]
    /\ pc' = [pc EXCEPT ![t] = "idle"]
    /\ UNCHANGED <<tgt, arg, written, mutex, ttyState>>

tty_set_call(t) ==
    /\ pc[t] = "idle"
    /\ \E id \in DOMAIN ttyState, s \in WasiTtyState :
        /\ tgt' = [tgt EXCEPT ![t] = id]
        /\ arg' = [arg EXCEPT ![t] = Some(s)]
    /\ pc' = [pc EXCEPT ![t] = "set_lock"]
    /\ UNCHANGED <<ret, written, expect, mutex, ttyState>>

tty_set_lock(t) ==
    /\ pc[t] = "set_lock"
    /\ lock(t, tgt[t])
    /\ written' = [written EXCEPT ![tgt[t]] =
                        [by |-> "tty_set", state |-> CHOOSE s \in arg[t] : TRUE]]
    /\ pc' = [pc EXCEPT ![t] = "set_store"]
    /\ UNCHANGED <<tgt, arg, ret, expect, ttyState>>

\* *state = tty_state
tty_set_store(t) ==
    /\ pc[t] = "set_store"
    /\ ttyState' = [ttyState EXCEPT ![tgt[t]] = CHOOSE s \in arg[t] : TRUE]
    /\ pc' = [pc EXCEPT ![t] = "set_unlock"]
    /\ UNCHANGED <<tgt, arg, ret, written, expect, mutex>>

tty_set_unlock(t) ==
    /\ pc[t] = "set_unlock"
    /\ unlock(t, tgt[t])
    /\ arg' = [arg EXCEPT ![t] = None]
    /\ pc' = [pc EXCEPT ![t] = "idle"]
    /\ UNCHANGED <<tgt, ret, written, expect, ttyState>>

\* One DefaultTty::default(), shared by every thread.
InitTty ==
    /\ features = {}
    /\ ttyDefault \in WasiTtyState
    /\ rts = <<>>
    /\ ttyState = [id \in {1} |-> ttyDefault]
    /\ mutex = [id \in {1} |-> 0]
    /\ last = [op |-> "none"]
    /\ shared = {}
    /\ given = <<>>
    /\ pc = [t \in Threads |-> "idle"]
    /\ tgt = [t \in Threads |-> 1]
    /\ arg = [t \in Threads |-> None]
    /\ ret = [t \in Threads |-> None]
    /\ written = [id \in {1} |-> [by |-> "default", state |-> ttyDefault]]
    /\ expect = [t \in Threads |-> None]
    /\ calls = 0
    /\ fs = [exists |-> FALSE, entries |-> {}]
    /\ creatable = FALSE
    /\ out = [op |-> "none"]

NextTty ==
    \E t \in Threads :
        \/ reset_call(t) /\ UNCHANGED <<rtVars, fsVars, ttyDefault>>
        \/ reset_lock(t) /\ UNCHANGED <<rtVars, fsVars, ttyDefault>>
        \/ reset_echo(t) /\ UNCHANGED <<rtVars, fsVars, ttyDefault>>
        \/ reset_line_buffered(t) /\ UNCHANGED <<rtVars, fsVars, ttyDefault>>
        \/ reset_line_feeds(t) /\ UNCHANGED <<rtVars, fsVars, ttyDefault>>
        \/ reset_unlock(t) /\ UNCHANGED <<rtVars, fsVars, ttyDefault>>
        \/ tty_get_call(t) /\ UNCHANGED <<rtVars, fsVars, ttyDefault>>
        \/ tty_get_lock(t) /\ UNCHANGED <<rtVars, fsVars, ttyDefault>>
        \/ tty_get_clone(t) /\ UNCHANGED <<rtVars, fsVars, ttyDefault>>
        \/ tty_get_unlock(t) /\ UNCHANGED <<rtVars, fsVars, ttyDefault>>
        \/ tty_get_return(t) /\ UNCHANGED <<rtVars, fsVars, ttyDefault>>
        \/ tty_set_call(t) /\ UNCHANGED <<rtVars, fsVars, ttyDefault>>
        \/ tty_set_lock(t) /\ UNCHANGED <<rtVars, fsVars, ttyDefault>>
        \/ tty_set_store(t) /\ UNCHANGED <<rtVars, fsVars, ttyDefault>>
        \/ tty_set_unlock(t) /\ UNCHANGED <<rtVars, fsVars, ttyDefault>>

SpecTty == InitTty /\ [][NextTty]_vars

\* ------------------------------------------ PluggableRuntimeImplementation
\* Build configurations.  `engine` exists only with feature "sys", and
\* Default::default() assigns it under "sys-thread", so "sys-thread" builds
\* have "sys".
FeatureNames == {"sys", "sys-thread", "host-vnet", "host-reqwest", "host-termios+unix"}
Builds == {f \in SUBSET FeatureNames : "sys-thread" \in f => "sys" \in f}

\* Inputs an embedder passes in.
TaskManagers == {"rt1", "rt2"}
NetImpls == {"Custom"}
Engines == {"e1", "e2"}
TtyInputs == {[echo |-> TRUE, line_buffered |-> TRUE, line_feeds |-> TRUE],
              [echo |-> TRUE, line_buffered |-> FALSE, line_feeds |-> FALSE]}
TtyDefaults == {[echo |-> FALSE, line_buffered |-> FALSE, line_feeds |-> TRUE]}

\* Arc::new: an address no live object has.
FreshId(used) == CHOOSE i \in ObjIds \ used : \A j \in ObjIds \ used : i <= j
NetIds(r) == {r[h].networking.id : h \in DOMAIN r}
TtyIds(r) == {r[h].tty.id : h \in DOMAIN r}

\* The DefaultTty objects still referenced by some handle, with their state;
\* an Arc whose last reference is gone is freed.
LiveTty(r) == {r[h].tty.id : h \in {g \in DOMAIN r : r[g].tty.impl = "DefaultTty"}}

\* new(): the networking provider chosen by cfg(feature = "host-vnet").
new_networking(id) ==
    IF "host-vnet" \in features
    THEN [id |-> id, impl |-> "LocalNetworking"]
    ELSE [id |-> id, impl |-> "UnsupportedVirtualNetworking"]

\* new(): the HTTP client chosen by cfg(feature = "host-reqwest").
new_http_client_always ==
    Some("ReqwestHttpClient")
new_http_client ==
    IF "host-reqwest" \in features THEN Some("ReqwestHttpClient") ELSE None

\* new(): the tty chosen by cfg(all(feature = "host-termios", unix)).
new_tty(id) ==
    IF "host-termios+unix" \in features
    THEN [id |-> id, impl |-> "SysTty"]
    ELSE [id |-> id, impl |-> "DefaultTty"]

\* The struct literal new() returns.
new_self_no_rt(rtArg, netId, ttyId) ==
    [rt |-> "none",
     networking |-> new_networking(netId),
     http_client |-> new_http_client,
     engine |-> None,
     tty |-> new_tty(ttyId)]
new_self(rtArg, netId, ttyId) ==
    [rt |-> rtArg,
     networking |-> new_networking(netId),
     http_client |-> new_http_client,
     engine |-> None,
     tty |-> new_tty(ttyId)]

\* Installs a freshly built runtime value in slot h; a DefaultTty it brought
\* starts in WasiTtyState::default().
Given(h, g) == [k \in DOMAIN given \cup {h} |-> IF k = h THEN g ELSE given[k]]

Install(h, self) ==
    /\ rts' = [g \in DOMAIN rts \cup {h} |-> IF g = h THEN self ELSE rts[g]]
    /\ ttyState' = [id \in LiveTty(rts') |->
                        IF id \in DOMAIN ttyState THEN ttyState[id] ELSE ttyDefault]
    /\ mutex' = [id \in LiveTty(rts') |-> 0]

new(h, rtArg) ==
    /\ h \notin DOMAIN rts
    /\ Install(h, new_self(rtArg, FreshId(NetIds(rts)), FreshId(TtyIds(rts))))
    /\ last' = [op |-> "new", h |-> h, arg |-> Some(rtArg)]
    /\ given' = Given(h, [rt |-> rtArg, via |-> "new", val |-> None])
    /\ UNCHANGED shared

\* impl Default: with "sys-thread" the shared tokio task manager and the
\* default store's engine; without it unimplemented!() panics and no value
\* is produced.
default_degraded(h) ==
    /\ h \notin DOMAIN rts
    /\ Install(h, new_self("none", FreshId(NetIds(rts)), FreshId(TtyIds(rts))))
    /\ last' = [op |-> "default", h |-> h, arg |-> None, panicked |-> FALSE]
    /\ given' = Given(h, [rt |-> "TokioTaskManager::shared", via |-> "default", val |-> None])
    /\ UNCHANGED shared
default(h) ==
    /\ h \notin DOMAIN rts
    /\ IF "sys-thread" \in features
       THEN /\ Install(h, [new_self("TokioTaskManager::shared",
                                    FreshId(NetIds(rts)), FreshId(TtyIds(rts)))
                             EXCEPT !.engine = Some("default_engine")])
            /\ last' = [op |-> "default", h |-> h,
                        arg |-> Some("TokioTaskManager::shared"), panicked |-> FALSE]
            /\ given' = Given(h, [rt |-> "TokioTaskManager::shared",
                                  via |-> "default", val |-> None])
       ELSE /\ UNCHANGED <<rts, ttyState, mutex>>
            /\ last' = [op |-> "default", h |-> h, arg |-> None, panicked |-> TRUE]
            /\ UNCHANGED given
    /\ UNCHANGED shared

\* #[derive(Clone)]: every field is cloned; the Arc fields share their object.
clone_fields_deep_tty(self) ==
    [self EXCEPT !.tty.id = FreshId(TtyIds(rts))]
clone_fields(self) == self

clone(g, h) ==
    /\ g \in DOMAIN rts
    /\ h \notin DOMAIN rts
    /\ rts' = [k \in DOMAIN rts \cup {h} |-> IF k = h THEN clone_fields(rts[g]) ELSE rts[k]]
    /\ ttyState' = [id \in LiveTty(rts') |->
                        IF id \in DOMAIN ttyState THEN ttyState[id]
                        ELSE ttyState[rts[g].tty.id]]
    /\ mutex' = [id \in LiveTty(rts') |-> 0]
    /\ last' = [op |-> "clone", h |-> h, src |-> g]
    /\ given' = Given(h, given[g])
    /\ shared' = shared \cup {{g, h}} \cup {{k, h} : k \in {j \in DOMAIN rts : {j, g} \in shared}}

\* self.networking = Arc::new(net)
with_networking(self, n) == [self EXCEPT !.networking = n]

set_networking_implementation(h, impl) ==
    /\ h \in DOMAIN rts
    /\ LET n == [id |-> FreshId(NetIds(rts)), impl |-> impl] IN
        /\ rts' = [rts EXCEPT ![h] = with_networking(@, n)]
        /\ last' = [op |-> "set_networking_implementation", h |-> h, arg |-> n]
    /\ UNCHANGED <<ttyState, mutex, shared, given>>

\* self.engine = engine  (cfg(feature = "sys"))
with_engine(self, e) == [self EXCEPT !.engine = e]

set_engine(h, e) ==
    /\ "sys" \in features
    /\ h \in DOMAIN rts
    /\ rts' = [rts EXCEPT ![h] = with_engine(@, e)]
    /\ last' = [op |-> "set_engine", h |-> h, arg |-> e]
    /\ given' = [given EXCEPT ![h].via = "set_engine", ![h].val = e]
    /\ UNCHANGED <<ttyState, mutex, shared>>

\* self.tty = tty
with_tty_reset_engine(self, t) == [self EXCEPT !.tty = t, !.engine = None]
with_tty(self, t) == [self EXCEPT !.tty = t]

\* The Arc passed in is a clone of one some handle holds, or a new DefaultTty.
TtyArgs == {rts[g].tty : g \in DOMAIN rts}
             \cup {[id |-> FreshId(TtyIds(rts)), impl |-> "DefaultTty"]}

set_tty(h, t) ==
    /\ h \in DOMAIN rts
    /\ rts' = [rts EXCEPT ![h] = with_tty(@, t)]
    /\ ttyState' = [id \in LiveTty(rts') |->
                        IF id \in DOMAIN ttyState THEN ttyState[id] ELSE ttyDefault]
    /\ mutex' = [id \in LiveTty(rts') |-> 0]
    /\ last' = [op |-> "set_tty", h |-> h, arg |-> t]
    /\ shared' = {p \in shared : h \notin p}
    /\ UNCHANGED given

\* ------------------------------- impl WasiRuntime for PluggableRuntimeImplementation
networking(self) == Some(self.networking)
task_manager(self) == Some(self.rt)
http_client(self) == self.http_client
engine_unset(self) == None
engine(self) == self.engine
tty(self) == Some(self.tty)

\* WasiRuntime::new_store: Store::new(engine) when engine() is Some under
\* "sys", Store::default() otherwise.
new_store_value(self) ==
    IF "sys" \in features
    THEN IF engine(self) /= None
         THEN [ctor |-> "Store::new", engine |-> engine(self)]
         ELSE [ctor |-> "Store::default", engine |-> None]
    ELSE [ctor |-> "Store::default", engine |-> None]

new_store(h) ==
    /\ h \in DOMAIN rts
    /\ last' = [op |-> "new_store", h |-> h, store |-> new_store_value(rts[h])]
    /\ UNCHANGED <<rts, ttyState, mutex, shared, given>>

\* A session calls through tty() on a DefaultTty, with the lock uncontended:
\* lock, the method body, unlock in one step.
tty_get(self) == ttyState[self.tty.id]

tty_reset(h) ==
    /\ h \in DOMAIN rts
    /\ rts[h].tty.impl = "DefaultTty"
    /\ ttyState' = [ttyState EXCEPT ![rts[h].tty.id] = reset_state(@)]
    /\ last' = [op |-> "reset", h |-> h, arg |-> None]
    /\ UNCHANGED <<rts, mutex, shared, given>>

tty_set(h, s) ==
    /\ h \in DOMAIN rts
    /\ rts[h].tty.impl = "DefaultTty"
    /\ ttyState' = [ttyState EXCEPT ![rts[h].tty.id] = s]
    /\ last' = [op |-> "tty_set", h |-> h, arg |-> Some(s)]
    /\ UNCHANGED <<rts, mutex, shared, given>>

Init ==
    /\ features \in Builds
    /\ ttyDefault \in TtyDefaults
    /\ rts = <<>>
    /\ ttyState = <<>>
    /\ mutex = <<>>
    /\ last = [op |-> "none"]
    /\ shared = {}
    /\ given = <<>>
    /\ pc = [t \in Threads |-> "idle"]
    /\ tgt = [t \in Threads |-> 1]
    /\ arg = [t \in Threads |-> None]
    /\ ret = [t \in Threads |-> None]
    /\ written = <<>>
    /\ expect = [t \in Threads |-> None]
    /\ calls = 0
    /\ fs = [exists |-> FALSE, entries |-> {}]
    /\ creatable = FALSE
    /\ out = [op |-> "none"]

\* One more call on the handles; nothing outside the runtime moves.
rtFrame ==
    /\ calls < MaxOps
    /\ calls' = calls + 1
    /\ UNCHANGED <<features, ttyDefault, pc, tgt, arg, ret, written, expect, fsVars>>

Next ==
    \/ \E h \in Handles, r \in TaskManagers : new(h, r) /\ rtFrame
    \/ \E h \in Handles : default(h) /\ rtFrame
    \/ \E g \in Handles, h \in Handles : clone(g, h) /\ rtFrame
    \/ \E h \in Handles, i \in NetImpls : set_networking_implementation(h, i) /\ rtFrame
    \/ \E h \in Handles, e \in {None} \cup {Some(x) : x \in Engines} : set_engine(h, e) /\ rtFrame
    \/ \E h \in Handles, t \in TtyArgs : set_tty(h, t) /\ rtFrame
    \/ \E h \in Handles : new_store(h) /\ rtFrame
    \/ \E h \in Handles : tty_reset(h) /\ rtFrame
    \/ \E h \in Handles, s \in TtyInputs : tty_set(h, s) /\ rtFrame

Spec == Init /\ [][Next]_vars

\* ------------------------------------------------------ PackageUnpack
\* Top-level names that can sit in the output directory: the three the hello
\* package of the test declares, and one that no package declares.
EntryNames == {"atom", "manifest.json", "metadata", "stale.txt"}

\* The package files on disk: path -> Option<declared top-level entries>.
\* None is a path Container::from_disk cannot open.
PackageFiles ==
    [p \in {"hello.webc", "tiny.webc", "missing.webc"} |->
        CASE p = "hello.webc" -> Some({"atom", "manifest.json", "metadata"})
          [] p = "tiny.webc" -> Some({"manifest.json"})
          [] OTHER -> None]
PackagePaths == DOMAIN PackageFiles

\* webc::compat::Container::from_disk(path)
from_disk(path) ==
    IF PackageFiles[path] = None
    THEN [ok |-> FALSE, pkg |-> {}]
    ELSE [ok |-> TRUE, pkg |-> CHOOSE d \in PackageFiles[path] : TRUE]

\* Container::unpack(outdir, overwrite): the outcomes it can have on
\* directory d.  It fails on a conflict with an existing entry unless
\* overwrite is set (having possibly written some of the other entries); in
\* a directory holding only unrelated entries it may refuse or extract.
unpack(pkg, d, overwrite) ==
    LET done == [ok |-> TRUE, dir |-> [d EXCEPT !.entries = @ \cup pkg]] IN
    IF overwrite \/ d.entries = {}
    THEN {done}
    ELSE IF d.entries \cap pkg /= {}
    THEN {[ok |-> FALSE, dir |-> [d EXCEPT !.entries = @ \cup w]] :
              w \in SUBSET (pkg \ d.entries)}
    ELSE {done, [ok |-> FALSE, dir |-> d]}

\* std::fs::create_dir_all(outdir)
create_dir_all(d) ==
    IF d.exists THEN [ok |-> TRUE, dir |-> d]
    ELSE IF creatable THEN [ok |-> TRUE, dir |-> [d EXCEPT !.exists = TRUE]]
    ELSE [ok |-> FALSE, dir |-> d]

Banner == "Unpacking..."
Confirmation == "Extracted package contents to out_dir"

\* PackageUnpack::execute on directory d: every outcome it can have, as
\* [dir, result, steps, stderr]; each `?` returns at the first failure.
execute_mkdir_first(d, package_path, overwrite) ==
    LET made == create_dir_all(d)
        opened == from_disk(package_path) IN
    IF ~made.ok
    THEN {[dir |-> made.dir, result |-> "could not create output directory",
           steps |-> <<"create_dir_all">>, stderr |-> <<Banner>>]}
    ELSE IF ~opened.ok
    THEN {[dir |-> made.dir, result |-> "could not open package",
           steps |-> <<"create_dir_all", "from_disk">>, stderr |-> <<Banner>>]}
    ELSE {IF u.ok
          THEN [dir |-> u.dir, result |-> "Ok",
                steps |-> <<"create_dir_all", "from_disk", "unpack">>,
                stderr |-> <<Banner, Confirmation>>]
          ELSE [dir |-> u.dir, result |-> "could not extract package",
                steps |-> <<"create_dir_all", "from_disk", "unpack">>,
                stderr |-> <<Banner>>] :
          u \in unpack(opened.pkg, made.dir, overwrite)}
execute_no_unpack(d, package_path, overwrite) ==
    LET opened == from_disk(package_path)
        made == create_dir_all(d) IN
    IF ~opened.ok
    THEN {[dir |-> d, result |-> "could not open package",
           steps |-> <<"from_disk">>, stderr |-> <<Banner>>]}
    ELSE IF ~made.ok
    THEN {[dir |-> made.dir, result |-> "could not create output directory",
           steps |-> <<"from_disk", "create_dir_all">>, stderr |-> <<Banner>>]}
    ELSE {[dir |-> made.dir, result |-> "Ok",
           steps |-> <<"from_disk", "create_dir_all">>,
           stderr |-> <<Banner, Confirmation>>]}
execute_outcomes(d, package_path, overwrite) ==
    LET opened == from_disk(package_path)
        made == create_dir_all(d) IN
    IF ~opened.ok
    THEN {[dir |-> d, result |-> "could not open package",
           steps |-> <<"from_disk">>, stderr |-> <<Banner>>]}
    ELSE IF ~made.ok
    THEN {[dir |-> made.dir, result |-> "could not create output directory",
           steps |-> <<"from_disk", "create_dir_all">>, stderr |-> <<Banner>>]}
    ELSE {IF u.ok
          THEN [dir |-> u.dir, result |-> "Ok",
                steps |-> <<"from_disk", "create_dir_all", "unpack">>,
                stderr |-> <<Banner, Confirmation>>]
          ELSE [dir |-> u.dir, result |-> "could not extract package",
                steps |-> <<"from_disk", "create_dir_all", "unpack">>,
                stderr |-> <<Banner>>] :
          u \in unpack(opened.pkg, made.dir, overwrite)}

execute(package_path, overwrite) ==
    \E o \in execute_outcomes(fs, package_path, overwrite) :
        /\ fs' = o.dir
        /\ out' = [op |-> "execute", package_path |-> package_path,
                   overwrite |-> overwrite, pre |-> fs, result |-> o.result,
                   steps |-> o.steps, stderr |-> o.stderr]
        /\ UNCHANGED creatable

\* The rest of the system acting on the output directory between runs.
env_mkdir ==
    /\ ~fs.exists
    /\ fs' = [exists |-> TRUE, entries |-> {}]
    /\ out' = [op |-> "env"]
    /\ UNCHANGED creatable

env_write(n) ==
    /\ fs.exists
    /\ n \notin fs.entries
    /\ fs' = [fs EXCEPT !.entries = @ \cup {n}]
    /\ out' = [op |-> "env"]
    /\ UNCHANGED creatable

env_remove_dir ==
    /\ fs.exists
    /\ fs' = [exists |-> FALSE, entries |-> {}]
    /\ out' = [op |-> "env"]
    /\ UNCHANGED creatable

InitUnpack ==
    /\ features = {}
    /\ ttyDefault \in TtyDefaults
    /\ rts = <<>>
    /\ ttyState = <<>>
    /\ mutex = <<>>
    /\ last = [op |-> "none"]
    /\ shared = {}
    /\ given = <<>>
    /\ pc = [t \in Threads |-> "idle"]
    /\ tgt = [t \in Threads |-> 1]
    /\ arg = [t \in Threads |-> None]
    /\ ret = [t \in Threads |-> None]
    /\ written = <<>>
    /\ expect = [t \in Threads |-> None]
    /\ calls = 0
    /\ fs = [exists |-> FALSE, entries |-> {}]
    /\ creatable \in BOOLEAN
    /\ out = [op |-> "none"]

unpackFrame == UNCHANGED <<rtVars, thVars, ttyDefault, ttyState>>

NextUnpack ==
    \/ \E p \in PackagePaths, w \in BOOLEAN : execute(p, w) /\ unpackFrame
    \/ env_mkdir /\ unpackFrame
    \/ \E n \in EntryNames : env_write(n) /\ unpackFrame
    \/ env_remove_dir /\ unpackFrame

SpecUnpack == InitUnpack /\ [][NextUnpack]_vars

\* ================================================================ claims
AllClear(s) == ~s.echo /\ ~s.line_buffered /\ ~s.line_feeds

\* C1: with threads calling tty_set, tty_get and reset concurrently on one
\* DefaultTty, the value a tty_get returns is the whole state left by the
\* most recent tty_set or reset in lock order (the initial state if none):
\* never a mix of fields of two writes.
C1_GetReturnsLatestWholeWrite ==
    \A t \in Threads :
        ret[t] /= None => ret[t] = {e.state : e \in expect[t]}

\* A tty_get has returned a value written by a tty_set while another thread
\* is queued on the lock to write.
C1_Witness ==
    \E t \in Threads, u \in Threads :
        /\ t /= u
        /\ pc[t] = "get_unlock"
        /\ \E e \in expect[t] : e.by = "tty_set" /\ e.state /= ttyDefault
        /\ pc[u] \in {"reset_lock", "set_lock"}

\* C2: whatever the state before, when reset() has run its body the three
\* flags are false, resetting that state again changes nothing, and a
\* tty_get whose latest preceding write is a reset returns the flags false.
C2_ResetClearsAllFlags ==
    \A t \in Threads :
        /\ pc[t] = "reset_unlock" =>
              /\ AllClear(ttyState[tgt[t]])
              /\ reset_state(ttyState[tgt[t]]) = ttyState[tgt[t]]
        /\ \A e \in expect[t] : e.by = "reset" => \A r \in ret[t] : AllClear(r)

\* A tty_get returned after a reset of a tty whose flags all started true.
C2_Witness ==
    \E t \in Threads :
        /\ ttyDefault.echo /\ ttyDefault.line_buffered /\ ttyDefault.line_feeds
        /\ ret[t] /= None
        /\ \E e \in expect[t] : e.by = "reset"

KnownNetworking == {"LocalNetworking", "UnsupportedVirtualNetworking"} \cup NetImpls

\* C3: for every constructed runtime, after any calls of the mutators,
\* networking() and task_manager() return a provider, and task_manager()
\* is the handle the constructor was given.
C3_NetworkingAndTaskManagerTotal ==
    \A h \in DOMAIN rts :
        /\ networking(rts[h]) /= None
        /\ \A n \in networking(rts[h]) : n.id \in ObjIds /\ n.impl \in KnownNetworking
        /\ task_manager(rts[h]) = Some(given[h].rt)
        /\ given[h].rt \in TaskManagers \cup {"TokioTaskManager::shared"}

\* A runtime built by new(rt) whose networking and tty were both replaced.
C3_Witness ==
    /\ last.op = "set_tty"
    /\ given[last.h].via = "new"
    /\ rts[last.h].networking.impl \in NetImpls

\* C4: in a build without an HTTP backend, http_client() is None for every
\* runtime and stays None through the mutators, while networking() and
\* task_manager() of the same runtime return providers.
C4_HttpClientAbsent ==
    "host-reqwest" \notin features =>
        \A h \in DOMAIN rts :
            /\ http_client(rts[h]) = None
            /\ networking(rts[h]) /= None
            /\ task_manager(rts[h]) /= None

\* A build without host-reqwest where a runtime had its networking and its
\* engine replaced.
C4_Witness ==
    /\ "host-reqwest" \notin features
    /\ last.op = "set_engine"
    /\ rts[last.h].networking.impl \in NetImpls

\* The store the claim expects from what the handle was given.
StoreFor(g) ==
    IF g.via = "set_engine" /\ g.val /= None
    THEN [ctor |-> "Store::new", engine |-> g.val]
    ELSE IF g.via = "default"
    THEN [ctor |-> "Store::new", engine |-> Some("default_engine")]
    ELSE [ctor |-> "Store::default", engine |-> None]

\* C5: new_store() always yields a store: built from the engine most
\* recently given to set_engine when that was Some, the default store after
\* new(rt) or set_engine(None), and built from exactly engine() whenever
\* engine() is Some.
C5_NewStoreUsesConfiguredEngine ==
    /\ \A h \in DOMAIN rts :
        /\ new_store_value(rts[h]) = StoreFor(given[h])
        /\ new_store_value(rts[h]).ctor \in {"Store::new", "Store::default"}
        /\ engine(rts[h]) /= None /\ "sys" \in features =>
              new_store_value(rts[h]) = [ctor |-> "Store::new", engine |-> engine(rts[h])]
    /\ last.op = "new_store" => last.store = StoreFor(given[last.h])

\* new_store() was called on a runtime whose engine came from set_engine.
C5_Witness ==
    /\ last.op = "new_store"
    /\ last.store.ctor = "Store::new"
    /\ given[last.h].via = "set_engine"

\* C6: Default::default() yields a runtime only in a build with the implicit
\* multi-threaded task manager, and then its task manager is the shared one
\* and its engine is present; in every other build it panics and produces no
\* runtime.
C6_DefaultOnlyWithSysThread ==
    /\ last.op = "default" =>
          IF "sys-thread" \in features
          THEN /\ ~last.panicked
               /\ last.h \in DOMAIN rts
               /\ task_manager(rts[last.h]) = Some("TokioTaskManager::shared")
               /\ engine(rts[last.h]) /= None
          ELSE /\ last.panicked
               /\ last.h \notin DOMAIN rts
    /\ \A h \in DOMAIN rts : given[h].via = "default" => "sys-thread" \in features

\* default() panicked in a process that already holds a runtime built by new.
C6_Witness ==
    /\ last.op = "default"
    /\ last.panicked
    /\ DOMAIN rts /= {}

\* C7: each mutator replaces the provider it names by its argument and leaves
\* the other four fields of the runtime as they were.
C7_MutatorsReplaceOneField ==
    [][/\ last'.op = "set_networking_implementation" =>
            LET a == rts[last'.h]
                b == rts'[last'.h] IN
            /\ networking(b) = Some(last'.arg)
            /\ task_manager(b) = task_manager(a) /\ http_client(b) = http_client(a)
            /\ engine(b) = engine(a) /\ tty(b) = tty(a)
       /\ last'.op = "set_tty" =>
            LET a == rts[last'.h]
                b == rts'[last'.h] IN
            /\ tty(b) = Some(last'.arg)
            /\ task_manager(b) = task_manager(a) /\ http_client(b) = http_client(a)
            /\ engine(b) = engine(a) /\ networking(b) = networking(a)
       /\ last'.op = "set_engine" =>
            LET a == rts[last'.h]
                b == rts'[last'.h] IN
            /\ engine(b) = last'.arg
            /\ task_manager(b) = task_manager(a) /\ http_client(b) = http_client(a)
            /\ networking(b) = networking(a) /\ tty(b) = tty(a)
      ]_vars

\* set_tty ran on a runtime that has an engine configured.
C7_Witness ==
    /\ last.op = "set_tty"
    /\ engine(rts[last.h]) /= None
    /\ tty(rts[last.h]) = Some(last.arg)

Mutators == {"set_networking_implementation", "set_engine", "set_tty"}

\* C9: a clone holds the same provider objects as its source; while two
\* handles share the tty a clone copied, a tty_set or reset through one is
\* what tty_get returns through the other; and a mutator called on one handle
\* changes no field, and no tty state, of any other handle.
C9_CloneSharesProviders ==
    [][/\ last'.op = "clone" => rts'[last'.h] = rts'[last'.src]
       /\ \A p \in shared' : \A g \in p, h \in p :
            /\ tty(rts'[g]) = tty(rts'[h])
            /\ (last'.op = "tty_set" /\ last'.h = h) => Some(tty_get(rts[g])') = last'.arg
            /\ (last'.op = "reset" /\ last'.h = h) => AllClear(tty_get(rts[g])')
       /\ last'.op \in Mutators =>
            \A g \in DOMAIN rts \ {last'.h} :
                /\ rts'[g] = rts[g]
                /\ rts[g].tty.impl = "DefaultTty" => tty_get(rts[g])' = tty_get(rts[g])
      ]_vars

\* A tty_set went through one handle while its clone shares the tty.
C9_Witness ==
    /\ last.op = "tty_set"
    /\ \E g \in DOMAIN rts \ {last.h} :
        /\ {g, last.h} \in shared
        /\ Some(tty_get(rts[g])) = last.arg
        /\ tty_get(rts[g]) /= ttyDefault

\* C8: execute on a package that opens, an existing empty output directory
\* and overwrite = false returns Ok, and the directory then holds exactly the
\* top-level entries the package declares.
C8_ExtractIntoEmptyDir ==
    (/\ out.op = "execute"
     /\ from_disk(out.package_path).ok
     /\ out.pre.exists /\ out.pre.entries = {}
     /\ ~out.overwrite)
    => /\ out.result = "Ok"
       /\ fs.exists
       /\ fs.entries = from_disk(out.package_path).pkg

\* The test's run: hello.webc into an empty directory.
C8_Witness ==
    /\ out.op = "execute"
    /\ out.package_path = "hello.webc"
    /\ out.pre.exists /\ out.pre.entries = {}
    /\ ~out.overwrite
    /\ fs.entries = {"atom", "manifest.json", "metadata"}

IsPrefix(a, b) == Len(a) <= Len(b) /\ \A i \in 1..Len(a) : a[i] = b[i]
InStderr(m, log) == \E i \in 1..Len(log) : log[i] = m

\* C10: execute runs open package, create output directory, extract in that
\* order and stops at the first failure; it returns Ok, and prints the
\* confirmation, only when all three succeeded; when the package cannot be
\* opened the output directory is left as it was.
C10_StepsInOrderStopAtFirstFailure ==
    out.op = "execute" =>
        LET opened == from_disk(out.package_path).ok
            canDir == out.pre.exists \/ creatable IN
        /\ IsPrefix(out.steps, <<"from_disk", "create_dir_all", "unpack">>)
        /\ ~opened =>
              /\ out.result = "could not open package"
              /\ out.steps = <<"from_disk">>
              /\ fs = out.pre
        /\ (opened /\ ~canDir) =>
              /\ out.result = "could not create output directory"
              /\ out.steps = <<"from_disk", "create_dir_all">>
              /\ fs = out.pre
        /\ (opened /\ canDir) =>
              /\ out.result \in {"Ok", "could not extract package"}
              /\ Len(out.steps) = Len(<<"from_disk", "create_dir_all", "unpack">>)
              /\ fs.exists
        /\ out.result = "Ok" => from_disk(out.package_path).pkg \subseteq fs.entries
        /\ InStderr(Confirmation, out.stderr) <=> out.result = "Ok"

\* An unopenable package was given while the output directory did not exist
\* and could have been created.
C10_Witness ==
    /\ out.op = "execute"
    /\ ~from_disk(out.package_path).ok
    /\ ~out.pre.exists
    /\ creatable

====
